---- MODULE Spec2Model ----
(***************************************************************************)
(* UAV insurance premium pricing: the rating pass (compute_model), the     *)
(* aggregation into net and gross summaries, and the capacity-limiting     *)
(* premium adjustments (PremiumAdjustments), as implemented in             *)
(* src/model_operations.py and src/main.py.                                *)
(*                                                                         *)
(* Numbers.  Python floats are modelled as exact decimals in fixed point:  *)
(* the integer n stands for n / Scale.  Every product of the rating pass   *)
(* is exact at this scale for the inputs drawn below.  round() is          *)
(* round-half-to-even, as in Python 3.                                     *)
(*                                                                         *)
(* Python values.  A computed value is a tagged record: Num(n), the        *)
(* empty string NotApplicable returned by the zero guard, or Raise(e) for  *)
(* an exception e that left the expression.                                *)
(***************************************************************************)
EXTENDS Integers, Sequences, FiniteSets, TLC

VARIABLES model_data, pc, call, trace

vars == <<model_data, pc, call, trace>>

(***************************************************************************)
(* Fixed point                                                             *)
(***************************************************************************)
Scale == 10 * 10 * 10

Money(units) == units * Scale

\* a * b / Scale without leaving 32 bits: split a into whole units and rest
Mul(a, b) == (a \div Scale) * b + ((a % Scale) * b) \div Scale

\* the integer nearest n / d, ties to the even one (d # 0)
RoundRatio(n, d) ==
  LET nn == IF d < 0 THEN -n ELSE n
      dd == IF d < 0 THEN -d ELSE d
      f  == nn \div dd
      r  == nn % dd
  IN  IF 2 * r < dd THEN f
      ELSE IF 2 * r > dd THEN f + 1
      ELSE IF f % 2 = 0 THEN f ELSE f + 1

RECURSIVE Pow10(_)
Pow10(n) == IF n = 0 THEN 1 ELSE 10 * Pow10(n - 1)

(***************************************************************************)
(* Python values                                                           *)
(***************************************************************************)
Num(n) == [t |-> "num", v |-> n]

\* the '' returned by _execute_if_not_zero for a zero value
NotApplicable == [t |-> "str", v |-> ""]

Raise(e) == [t |-> "raise", v |-> e]

IsNum(x) == x.t = "num"

IsRaise(x) == x.t = "raise"

\* a * b: float * float; '' * 100 is '' (sequence repetition by an int);
\* '' * float and '' * '' raise TypeError
PyMul(a, b, bIsInt) ==
  IF IsRaise(a) THEN a
  ELSE IF IsRaise(b) THEN b
  ELSE IF IsNum(a) /\ IsNum(b) THEN Num(Mul(a.v, b.v))
  ELSE IF a.t = "str" /\ IsNum(b) /\ bIsInt THEN NotApplicable
  ELSE Raise("TypeError")

\* a / b: '' / 100 raises TypeError, x / 0 raises ZeroDivisionError
PyDiv(a, b) ==
  IF IsRaise(a) THEN a
  ELSE IF IsRaise(b) THEN b
  ELSE IF ~(IsNum(a) /\ IsNum(b)) THEN Raise("TypeError")
  ELSE IF b.v = 0 THEN Raise("ZeroDivisionError")
  ELSE Num((a.v \div b.v) * Scale + ((a.v % b.v) * Scale) \div b.v)

\* round(a, ndigits): round-half-even to ndigits decimals; round('') raises
PyRound(a, ndigits) ==
  IF IsRaise(a) THEN a
  ELSE IF ~IsNum(a) THEN Raise("TypeError")
  ELSE LET unit == Scale \div Pow10(ndigits)
       IN  Num(RoundRatio(a.v, unit) * unit)

Hundred == Num(Money(100))

(***************************************************************************)
(* Rate parameters (_PARAMETERS), as mocked in test_operations.py          *)
(***************************************************************************)
HullRate == Num(600)

LiabilityRate == Num(200)

max_takeoff_weight_adj ==
  [b \in {"0 - 5kg", "5 - 10kg", "10 - 20kg", ">20kg"} |->
     CASE b = "0 - 5kg"   -> Num(1000)
       [] b = "5 - 10kg"  -> Num(1200)
       [] b = "10 - 20kg" -> Num(1600)
       [] b = ">20kg"     -> Num(2500)]

base_limit == 1000000

CurveZ == 200

(***************************************************************************)
(* BaseModelOperations                                                     *)
(***************************************************************************)
\* callback() if value != 0 else ''
ExecuteIfNotZero(value, callbackResult) ==
  IF value # 0 THEN callbackResult ELSE NotApplicable

\* _execute_if_not_zero(value, lambda: value * final_rate) / 100
calculate_premium(final_rate, value) ==
  PyDiv(ExecuteIfNotZero(value, PyMul(Num(value), final_rate, FALSE)), Hundred)

\* product.get(insurance_type, 0)
DictGet(product, key, default) ==
  IF key \in DOMAIN product THEN product[key] ELSE default

\* sum(...) over a list of Python values, starting from the int 0
RECURSIVE PySum(_)
PySum(values) ==
  IF values = <<>> THEN Num(0)
  ELSE LET head == PySum(SubSeq(values, 1, Len(values) - 1))
           last == values[Len(values)]
       IN  IF IsRaise(head) THEN head
           ELSE IF IsNum(last) THEN Num(head.v + last.v)
           ELSE Raise("TypeError")

\* round(sum(product.get(insurance_type, 0) for product in product_list), 0)
calculate_total_net(product_list, insurance_type) ==
  PyRound(PySum([i \in 1..Len(product_list) |->
                   DictGet(product_list[i], insurance_type, Num(0))]), 0)

\* round(hull_net / (1 - brokerage), 0); the quotient is rounded exactly
calculate_total_gross(product_list, brokerage, insurance_type) ==
  LET hull_net == calculate_total_net(product_list, insurance_type)
  IN  IF IsRaise(hull_net) THEN hull_net
      ELSE IF Scale - brokerage = 0 THEN Raise("ZeroDivisionError")
      ELSE Num(RoundRatio(hull_net.v, Scale - brokerage) * Scale)

\* sum(premiums)
calculate_premium_total(premiums) == PySum(premiums)

(***************************************************************************)
(* DroneOperations                                                         *)
(***************************************************************************)
InPercentage(rate, in_percentage) ==
  IF in_percentage THEN PyMul(rate, Hundred, TRUE) ELSE rate

hull_base_rate(drone_value, in_percentage) ==
  InPercentage(ExecuteIfNotZero(drone_value, HullRate), in_percentage)

\* max_takeoff_weight_adj[drone_weight] raises KeyError for an unknown band
WeightLookup(drone_weight) ==
  IF drone_weight \in DOMAIN max_takeoff_weight_adj
  THEN max_takeoff_weight_adj[drone_weight]
  ELSE Raise("KeyError")

hull_weight_adj(drone_value, drone_weight) ==
  ExecuteIfNotZero(drone_value, WeightLookup(drone_weight))

hull_final_rate(drone_value, drone_weight, in_percentage) ==
  InPercentage(
    ExecuteIfNotZero(drone_value,
      PyMul(hull_base_rate(drone_value, FALSE),
            hull_weight_adj(drone_value, drone_weight), FALSE)),
    in_percentage)

\* pow(x / base_limit, log2(1 + z)): 0 at x = 0 and (1 + z)^n at
\* x = base_limit * 2^n, the points where the curve is an exact decimal
RECURSIVE calculate_riesebell(_, _, _)
calculate_riesebell(base, z, x) ==
  IF x = 0 THEN 0
  ELSE IF x = base THEN Scale
  ELSE Mul(Scale + z, calculate_riesebell(base, z, x \div 2))

tpl_base_rate(drone_value, in_percentage) ==
  InPercentage(ExecuteIfNotZero(drone_value, LiabilityRate), in_percentage)

tpl_base_layer_premium(drone_value) ==
  ExecuteIfNotZero(drone_value,
    PyMul(tpl_base_rate(drone_value, FALSE), Num(drone_value), FALSE))

tpl_ilf(drone_value, tpl_limit, tpl_excess) ==
  LET tpl_sum == tpl_limit + tpl_excess
  IN  ExecuteIfNotZero(drone_value,
        Num(calculate_riesebell(base_limit, CurveZ, tpl_sum)
            - calculate_riesebell(base_limit, CurveZ, tpl_excess)))

tpl_layer_premium(drone_value, tpl_limit, tpl_excess) ==
  ExecuteIfNotZero(drone_value,
    PyMul(tpl_base_layer_premium(drone_value),
          tpl_ilf(drone_value, tpl_limit, tpl_excess), FALSE))

(***************************************************************************)
(* CameraOperations                                                        *)
(***************************************************************************)
Eligible(drones_list) ==
  SelectSeq(drones_list, LAMBDA d : d.has_detachable_camera /\ d.value > 0)

\* max(...) over the generator: the first element that raises ends it,
\* and an empty generator raises ValueError
RECURSIVE PyMax(_)
PyMax(values) ==
  IF values = <<>> THEN Raise("ValueError")
  ELSE IF Len(values) = 1 THEN values[1]
  ELSE LET head == PyMax(SubSeq(values, 1, Len(values) - 1))
           last == values[Len(values)]
       IN  IF IsRaise(head) THEN head
           ELSE IF IsRaise(last) THEN last
           ELSE IF last.v > head.v THEN last ELSE head

CameraRate(drones_list, in_percentage) ==
  LET el == Eligible(drones_list)
      rate == PyMax([i \in 1..Len(el) |->
                       hull_final_rate(el[i].value, el[i].weight, FALSE)])
  IN  IF IsRaise(rate) THEN rate ELSE InPercentage(rate, in_percentage)

(***************************************************************************)
(* compute_model (main.py)                                                 *)
(***************************************************************************)
\* d[key] = value on a dict
SetItem(d, key, value) ==
  [k \in DOMAIN d \cup {key} |-> IF k = key THEN value ELSE d[k]]

\* the assignments of one loop body in order, as <<field, value>>; the
\* first value that raises ends the body, the earlier ones stay written
RECURSIVE AssignInOrder(_, _)
AssignInOrder(record, steps) ==
  IF steps = <<>> THEN [rec |-> record, exc |-> "none"]
  ELSE IF IsRaise(steps[1][2]) THEN [rec |-> record, exc |-> steps[1][2].v]
  ELSE AssignInOrder(SetItem(record, steps[1][1], steps[1][2]), Tail(steps))

\* the body of `for drone in drones`
RateDrone(drone) ==
  LET final == PyRound(hull_final_rate(drone.value, drone.weight, TRUE), 1)
  IN  AssignInOrder(drone,
        << <<"hull_base_rate", hull_base_rate(drone.value, TRUE)>>,
           <<"hull_weight_adjustment", hull_weight_adj(drone.value, drone.weight)>>,
           <<"hull_final_rate", final>>,
           <<"hull_premium", calculate_premium(final, drone.value)>>,
           <<"tpl_base_rate", tpl_base_rate(drone.value, TRUE)>>,
           <<"tpl_base_layer_premium", tpl_base_layer_premium(drone.value)>>,
           <<"tpl_ilf",
             PyRound(tpl_ilf(drone.value, drone.tpl_limit, drone.tpl_excess), 2)>>,
           <<"tpl_layer_premium",
             PyRound(tpl_layer_premium(drone.value, drone.tpl_limit,
                                       drone.tpl_excess), 0)>> >>)

\* the body of `for camera in cameras`
RateCamera(camera, highest_drone_rate) ==
  AssignInOrder(camera,
    << <<"hull_rate", PyRound(highest_drone_rate, 1)>>,
       <<"hull_premium", calculate_premium(highest_drone_rate, camera.value)>> >>)

\* a for loop over dicts mutated in place, given each body's result: the
\* records before the first raising body are rated, that one is partly
\* written, the rest untouched
FirstFailure(results) ==
  LET bad == {i \in 1..Len(results) : results[i].exc # "none"}
  IN  IF bad = {} THEN 0 ELSE CHOOSE i \in bad : \A j \in bad : i <= j

ForEach(items, results) ==
  LET f == FirstFailure(results)
  IN  [items |-> [i \in 1..Len(items) |->
                    IF f = 0 \/ i <= f THEN results[i].rec ELSE items[i]],
       exc |-> IF f = 0 THEN "none" ELSE results[f].exc]

\* the three category assignments followed by the total over every
\* numeric value the mapping then holds
Summarise(summary, hull, tpl, cams) ==
  LET s3 == SetItem(SetItem(SetItem(summary, "drones_hull", hull),
                            "drones_tpl", tpl), "cameras_hull", cams)
      keys == DOMAIN s3
      RECURSIVE Values(_)
      Values(ks) == IF ks = {} THEN <<>>
                    ELSE LET k == CHOOSE x \in ks : TRUE
                         IN  Append(Values(ks \ {k}), s3[k])
      numeric == SelectSeq(Values(keys), IsNum)
  IN  SetItem(s3, "total", calculate_premium_total(numeric))

\* model_data.get(key, {}) returns the mapping held by the document, or a
\* new one that the document never holds
Attach(doc, key, summary) ==
  IF key \in DOMAIN doc THEN [doc EXCEPT ![key] = summary] ELSE doc

FirstRaise(a, b, c) ==
  IF IsRaise(a) THEN a.v ELSE IF IsRaise(b) THEN b.v
  ELSE IF IsRaise(c) THEN c.v ELSE "none"

compute_model(doc) ==
  LET drones0 == DictGet(doc, "drones", <<>>)
      cameras0 == DictGet(doc, "detachable_cameras", <<>>)
      drones == ForEach(drones0,
                  [i \in 1..Len(drones0) |-> RateDrone(drones0[i])])
      doc1 == IF "drones" \in DOMAIN doc
              THEN [doc EXCEPT !["drones"] = drones.items] ELSE doc
      rate == CameraRate(drones.items, TRUE)
      cameras == ForEach(cameras0,
                   [i \in 1..Len(cameras0) |-> RateCamera(cameras0[i], rate)])
      doc2 == IF "detachable_cameras" \in DOMAIN doc
              THEN [doc1 EXCEPT !["detachable_cameras"] = cameras.items]
              ELSE doc1
      net == Summarise(DictGet(doc, "net_prem", <<>>),
               calculate_total_net(drones.items, "hull_premium"),
               calculate_total_net(drones.items, "tpl_layer_premium"),
               calculate_total_net(cameras.items, "hull_premium"))
      doc3 == Attach(doc2, "net_prem", net)
      g1 == calculate_total_gross(drones.items, doc.brokerage, "hull_premium")
      g2 == calculate_total_gross(drones.items, doc.brokerage, "tpl_layer_premium")
      g3 == calculate_total_gross(cameras.items, doc.brokerage, "hull_premium")
      gross == Summarise(DictGet(doc, "gross_prem", <<>>), g1, g2, g3)
  IN  IF drones.exc # "none" THEN [doc |-> doc1, exc |-> drones.exc]
      ELSE IF IsRaise(rate) THEN [doc |-> doc1, exc |-> rate.v]
      ELSE IF cameras.exc # "none" THEN [doc |-> doc2, exc |-> cameras.exc]
      ELSE IF FirstRaise(g1, g2, g3) # "none"
           THEN [doc |-> doc3, exc |-> FirstRaise(g1, g2, g3)]
      ELSE [doc |-> Attach(doc3, "gross_prem", gross), exc |-> "none"]

(***************************************************************************)
(* PremiumAdjustments                                                      *)
(***************************************************************************)
FlatDroneRate == 150

FlatCameraRate == 50

\* where index i goes in a descending order of keys that keeps equal keys
\* in their original order: behind every index whose key is >= its own
\* variant: an index goes in front of the indices of equal key (the order
\* of a descending sort that does not keep ties in place)
RECURSIVE InsertDescUnstable(_, _, _)
InsertDescUnstable(order, i, keys) ==
  IF order = <<>> THEN <<i>>
  ELSE IF keys[order[1]] > keys[i]
       THEN <<order[1]>> \o InsertDescUnstable(Tail(order), i, keys)
       ELSE <<i>> \o order

RECURSIVE InsertDesc(_, _, _)
InsertDesc(order, i, keys) ==
  IF order = <<>> THEN <<i>>
  ELSE IF keys[order[1]] >= keys[i]
       THEN <<order[1]>> \o InsertDesc(Tail(order), i, keys)
       ELSE <<i>> \o order

\* sorted(items, key=..., reverse=True), as the indices of items in
\* sorted order (the sort is stable, also with reverse=True)
RECURSIVE SortedDesc(_, _)
SortedDesc(keys, n) ==
  IF n = 0 THEN <<>> ELSE InsertDesc(SortedDesc(keys, n - 1), n, keys)

\* variant: `if idx <= max: continue`, one item too many is kept
OverwriteBeyondOffByOne(items, order, max_drones_in_air, flat) ==
  LET beyond == {order[p] : p \in {q \in 1..Len(order) : ~(q - 1 <= max_drones_in_air)}}
  IN  [i \in 1..Len(items) |->
         IF i \in beyond THEN SetItem(items[i], "hull_premium", Num(Money(flat)))
         ELSE items[i]]

\* variant: the records come back in sorted order
OverwriteBeyondSorted(items, order, max_drones_in_air, flat) ==
  [p \in 1..Len(order) |->
     IF p - 1 < max_drones_in_air THEN items[order[p]]
     ELSE SetItem(items[order[p]], "hull_premium", Num(Money(flat)))]

\* for idx, item in enumerate(sorted): if idx < max: continue;
\* item["hull_premium"] = flat   (idx counts from 0)
OverwriteBeyond(items, order, max_drones_in_air, flat) ==
  LET beyond == {order[p] : p \in {q \in 1..Len(order) : ~(q - 1 < max_drones_in_air)}}
  IN  [i \in 1..Len(items) |->
         IF i \in beyond THEN SetItem(items[i], "hull_premium", Num(Money(flat)))
         ELSE items[i]]

\* variant: the drones are ranked by value, as the cameras are
limited_drones_in_use_by_value(drones, max_drones_in_air) ==
  [items |-> OverwriteBeyond(drones,
               SortedDesc([i \in 1..Len(drones) |-> drones[i].value], Len(drones)),
               max_drones_in_air, FlatDroneRate),
   exc |-> "none"]

\* drone["hull_premium"] raises KeyError on a drone that was never priced
limited_drones_in_use(drones, max_drones_in_air) ==
  IF \E i \in 1..Len(drones) : "hull_premium" \notin DOMAIN drones[i]
  THEN [items |-> drones, exc |-> "KeyError"]
  ELSE [items |-> OverwriteBeyond(drones,
                    SortedDesc([i \in 1..Len(drones) |-> drones[i].hull_premium.v],
                               Len(drones)),
                    max_drones_in_air, FlatDroneRate),
        exc |-> "none"]

\* variant: no more cameras are in use than drones were passed
limited_cameras_in_use_per_drone(cameras, max_drones_in_air, drones) ==
  LET in_use == IF Len(drones) < max_drones_in_air THEN Len(drones)
                ELSE max_drones_in_air
  IN  [items |-> OverwriteBeyond(cameras,
                   SortedDesc([i \in 1..Len(cameras) |-> cameras[i].value],
                              Len(cameras)),
                   in_use, FlatCameraRate),
       exc |-> "none"]

\* the drones passed as third argument are never read
limited_cameras_in_use(cameras, max_drones_in_air, drones) ==
  IF Len(cameras) > max_drones_in_air
  THEN [items |-> OverwriteBeyond(cameras,
                    SortedDesc([i \in 1..Len(cameras) |-> cameras[i].value],
                               Len(cameras)),
                    max_drones_in_air, FlatCameraRate),
        exc |-> "none"]
  ELSE [items |-> cameras, exc |-> "none"]

(***************************************************************************)
(* Inputs                                                                  *)
(***************************************************************************)
MaxDrones == 2

MaxCameras == 2

MaxRuns == 2

\* Seq(S) up to length n
SeqsUpTo(S, n) == UNION {[1..k -> S] : k \in 0..n}

Drone(value, weight, camera, limit, excess) ==
  [value |-> Money(value), weight |-> weight, has_detachable_camera |-> camera,
   tpl_limit |-> limit, tpl_excess |-> excess]

\* drones of a fleet input document: two rated bands, with and without a
\* camera, layers on the exact points of the curve, a zero value and a
\* weight band the table does not hold
DroneInputs ==
  { Drone(300, "0 - 5kg", TRUE, base_limit, 0),
    Drone(110, "5 - 10kg", FALSE, base_limit, base_limit),
    Drone(250, "5 - 10kg", TRUE, 2 * base_limit, 2 * base_limit),
    Drone(0, "0 - 5kg", TRUE, base_limit, 0),
    Drone(300, "50 - 100kg", FALSE, base_limit, 0),
    Drone(0, "50 - 100kg", TRUE, base_limit, 0) }

CameraInputs == { [value |-> Money(v)] : v \in {200, 400} }

\* 0.3, 1 and 1.5
Brokerages == {300, 1000, 1500}

Capacities == {1, 2}

\* a fleet input document, with or without (empty) summaries
FleetDocuments ==
  { IF withSummaries
    THEN [drones |-> d, detachable_cameras |-> c, brokerage |-> b,
          max_drones_in_air |-> k, net_prem |-> <<>>, gross_prem |-> <<>>]
    ELSE [drones |-> d, detachable_cameras |-> c, brokerage |-> b,
          max_drones_in_air |-> k]
    : d \in SeqsUpTo(DroneInputs, MaxDrones),
      c \in SeqsUpTo(CameraInputs, MaxCameras),
      b \in Brokerages, k \in Capacities, withSummaries \in BOOLEAN }

(***************************************************************************)
(* main.py and the operations called on their own                          *)
(***************************************************************************)
Nothing == [t |-> "none", v |-> ""]

\* one call: its arguments, the exception that left it ("none" when it
\* returned) and its return value
Call(op, args, exc, ret) ==
  [op |-> op, args |-> args, exc |-> exc, ret |-> ret]

Returned(op, args, ret) ==
  IF IsRaise(ret) THEN Call(op, args, ret.v, Nothing)
  ELSE Call(op, args, "none", ret)

\* before any call
NoCall == Call("none", <<>>, "none", Nothing)

Last == IF trace = <<>> THEN NoCall ELSE trace[Len(trace)]

Calls(op) == Len(SelectSeq(trace, LAMBDA c : c.op = op))

Init ==
  /\ model_data \in FleetDocuments
  /\ pc = "start"
  /\ trace = <<>>
  /\ call = NoCall

\* compute_model(model_data), in main or called again on the document
ComputeModel ==
  /\ pc \in {"start", "rated", "done"}
  /\ Calls("compute_model") < MaxRuns
  /\ \E r \in {compute_model(model_data)} :
         /\ model_data' = r.doc
         /\ pc' = IF r.exc = "none" THEN "rated" ELSE "raised"
         /\ trace' = Append(trace, Call("compute_model", <<>>, r.exc, Nothing))
  /\ UNCHANGED call

\* PremiumAdjustments.limited_drones_in_use(drones, max_drones_in_air)
LimitedDronesInUse ==
  /\ pc = "rated"
  /\ LET k == model_data.max_drones_in_air
         r == limited_drones_in_use(model_data.drones, k)
     IN  /\ model_data' = [model_data EXCEPT !.drones = r.items]
         /\ pc' = IF r.exc = "none" THEN "drones_limited" ELSE "raised"
         /\ trace' = Append(trace,
                        Call("limited_drones_in_use", <<model_data.drones, k>>,
                             r.exc, Nothing))
  /\ UNCHANGED call

\* PremiumAdjustments.limited_cameras_in_use(cameras, max_drones_in_air, drones)
LimitedCamerasInUse ==
  /\ pc = "drones_limited"
  /\ LET k == model_data.max_drones_in_air
         r == limited_cameras_in_use(model_data.detachable_cameras, k,
                                     model_data.drones)
     IN  /\ model_data' = [model_data EXCEPT !.detachable_cameras = r.items]
         /\ pc' = "done"
         /\ trace' = Append(trace,
                        Call("limited_cameras_in_use",
                             <<model_data.detachable_cameras, k, model_data.drones>>,
                             r.exc, Nothing))
  /\ UNCHANGED call

\* the rating operations called on their own, as the unit tests call them,
\* on the drones of a document that holds no cameras
Standalone == pc = "start" /\ model_data.detachable_cameras = <<>>

CallCalculatePremium ==
  /\ Standalone
  /\ \E i \in 1..Len(model_data.drones), band \in {"0 - 5kg", "5 - 10kg"} :
       LET value == model_data.drones[i].value
           rate == PyMul(PyMul(HullRate, max_takeoff_weight_adj[band], FALSE),
                         Hundred, TRUE)
       IN  call' = Returned("calculate_premium", <<rate, value>>,
                            calculate_premium(rate, value))
  /\ pc' = "called"
  /\ UNCHANGED <<model_data, trace>>

CallHullWeightAdj ==
  /\ Standalone
  /\ \E i \in 1..Len(model_data.drones) :
       LET d == model_data.drones[i]
       IN  call' = Returned("hull_weight_adj", <<d.value, d.weight>>,
                            hull_weight_adj(d.value, d.weight))
  /\ pc' = "called"
  /\ UNCHANGED <<model_data, trace>>

CallHullFinalRate ==
  /\ Standalone
  /\ \E i \in 1..Len(model_data.drones), pct \in BOOLEAN :
       LET d == model_data.drones[i]
       IN  call' = Returned("hull_final_rate", <<d.value, d.weight, pct>>,
                            hull_final_rate(d.value, d.weight, pct))
  /\ pc' = "called"
  /\ UNCHANGED <<model_data, trace>>

CallCameraRate ==
  /\ Standalone
  /\ \E pct \in BOOLEAN :
       call' = Returned("rate", <<model_data.drones, pct>>,
                        CameraRate(model_data.drones, pct))
  /\ pc' = "called"
  /\ UNCHANGED <<model_data, trace>>

CallCalculateTotalGross ==
  /\ Standalone
  /\ call' = Returned("calculate_total_gross",
                      <<model_data.drones, model_data.brokerage, "hull_premium">>,
                      calculate_total_gross(model_data.drones,
                                            model_data.brokerage, "hull_premium"))
  /\ pc' = "called"
  /\ UNCHANGED <<model_data, trace>>

Next ==
  \/ ComputeModel
  \/ LimitedDronesInUse
  \/ LimitedCamerasInUse
  \/ CallCalculatePremium
  \/ CallHullWeightAdj
  \/ CallHullFinalRate
  \/ CallCameraRate
  \/ CallCalculateTotalGross

Spec == Init /\ [][Next]_vars

(***************************************************************************)
(* The operations of test_operations.py, called on priced fixtures         *)
(***************************************************************************)
MaxPricedDrones == 3

MaxPricedCameras == 3

MaxCapacity == 3

MaxApplications == 2

PricedDrone(value, weight, camera, limit, excess, hull, tpl) ==
  [value |-> Money(value), weight |-> weight, has_detachable_camera |-> camera,
   tpl_limit |-> limit, tpl_excess |-> excess,
   hull_premium |-> Num(Money(hull)), tpl_layer_premium |-> Num(Money(tpl))]

PricedCamera(value, hull) ==
  [value |-> Money(value), hull_premium |-> Num(Money(hull))]

\* self.example_data of TestOperations.setUp
example_data ==
  [drones |->
     << PricedDrone(10000, "0 - 5kg", TRUE, 1000000, 0, 600, 200),
        PricedDrone(12000, "10 - 20kg", FALSE, 4000000, 1000000, 1152, 126),
        PricedDrone(15000, "5 - 10kg", TRUE, 5000000, 5000000, 1080, 92) >>,
   detachable_cameras |->
     << PricedCamera(5000, 360), PricedCamera(2500, 180),
        PricedCamera(1500, 108), PricedCamera(2000, 144) >>,
   brokerage |-> 300]

\* priced drones below, at and above the flat drone rate
PricedDrones ==
  { PricedDrone(10000, "0 - 5kg", TRUE, 1000000, 0, hull, 200)
      : hull \in {100, FlatDroneRate, 600} }

\* priced cameras of two values
PricedCameras == { PricedCamera(1500, 108), PricedCamera(2000, 144) }

PricedDocuments ==
  { [drones |-> d, detachable_cameras |-> c, brokerage |-> 300]
    : d \in SeqsUpTo(PricedDrones, MaxPricedDrones),
      c \in SeqsUpTo(PricedCameras, MaxPricedCameras) }

InitOps ==
  /\ model_data \in PricedDocuments \cup {example_data}
  /\ pc = "fixture"
  /\ trace = <<>>
  /\ call = NoCall

\* an adjustment is applied to the fixture, then again with the same
\* capacity to what it left
Applicable(op, k) ==
  /\ pc = "fixture"
  /\ Len(trace) < MaxApplications
  /\ trace # <<>> => Last.op = op /\ Last.args[2] = k

TestLimitedDronesInUse ==
  \E k \in 0..MaxCapacity :
    /\ Applicable("limited_drones_in_use", k)
    /\ LET r == limited_drones_in_use(model_data.drones, k)
       IN  /\ model_data' = [model_data EXCEPT !.drones = r.items]
           /\ trace' = Append(trace,
                          Call("limited_drones_in_use", <<model_data.drones, k>>,
                               r.exc, Nothing))
    /\ UNCHANGED <<pc, call>>

TestLimitedCamerasInUse ==
  \E k \in 0..MaxCapacity :
    /\ Applicable("limited_cameras_in_use", k)
    /\ LET r == limited_cameras_in_use(model_data.detachable_cameras, k,
                                       model_data.drones)
       IN  /\ model_data' = [model_data EXCEPT !.detachable_cameras = r.items]
           /\ trace' = Append(trace,
                          Call("limited_cameras_in_use",
                               <<model_data.detachable_cameras, k, model_data.drones>>,
                               r.exc, Nothing))
    /\ UNCHANGED <<pc, call>>

InsuranceTypes == {"hull", "tpl", "hull_premium", "tpl_layer_premium"}

TestCalculateTotalNet ==
  /\ pc = "fixture" /\ trace = <<>>
  /\ \E list \in {"drones", "detachable_cameras"}, type \in InsuranceTypes :
       call' = Returned("calculate_total_net", <<model_data[list], type>>,
                        calculate_total_net(model_data[list], type))
  /\ pc' = "called"
  /\ UNCHANGED <<model_data, trace>>

TestCalculateTotalGross ==
  /\ pc = "fixture" /\ trace = <<>>
  /\ \E list \in {"drones", "detachable_cameras"}, type \in InsuranceTypes,
        brokerage \in Brokerages :
       call' = Returned("calculate_total_gross",
                        <<model_data[list], brokerage, type>>,
                        calculate_total_gross(model_data[list], brokerage, type))
  /\ pc' = "called"
  /\ UNCHANGED <<model_data, trace>>

NextOps ==
  \/ TestLimitedDronesInUse
  \/ TestLimitedCamerasInUse
  \/ TestCalculateTotalNet
  \/ TestCalculateTotalGross

SpecOps == InitOps /\ [][NextOps]_vars

(***************************************************************************)
(* Properties of the rating pass (checked under Spec)                      *)
(***************************************************************************)
ComputedFields ==
  {"hull_base_rate", "hull_weight_adjustment", "hull_final_rate", "hull_premium",
   "tpl_base_rate", "tpl_base_layer_premium", "tpl_ilf", "tpl_layer_premium"}

IsNotApplicable(x) == x.t = "str" /\ x.v = ""

RatingRan == trace # <<>> /\ Last.op = "compute_model"

Drones == model_data.drones

\* the body of the drone loop ran to its end on every drone
DronesRated ==
  \A i \in 1..Len(Drones) : ComputedFields \subseteq DOMAIN Drones[i]

\* C1: zero-value items never error.  After compute_model over a fleet that
\* holds a drone of value 0 the call has returned and every computed field
\* of that drone is the NotApplicable sentinel; and calculate_premium(rate, 0)
\* returns the sentinel for every rate.
C1_ZeroValueNeverErrors ==
  /\ (RatingRan /\ \E i \in 1..Len(Drones) : Drones[i].value = 0) =>
        /\ Last.exc = "none"
        /\ \A i \in 1..Len(Drones) : Drones[i].value = 0 =>
              \A f \in ComputedFields :
                f \in DOMAIN Drones[i] /\ IsNotApplicable(Drones[i][f])
  /\ (call.op = "calculate_premium" /\ call.args[2] = 0) =>
        call.exc = "none" /\ IsNotApplicable(call.ret)

NoEligibleDrone(drones_list) ==
  ~ \E i \in 1..Len(drones_list) :
      drones_list[i].has_detachable_camera /\ drones_list[i].value > 0

\* C4: camera rating over a drone list without an eligible drone ends in the
\* explicit NoEligibleDrone error, in CameraOperations.rate called on its own
\* and in compute_model once its drone loop has ended and it calls rate:
\* never a return value, never another exception.
C4_NoEligibleDroneIsExplicitError ==
  /\ (call.op = "rate" /\ NoEligibleDrone(call.args[1])) =>
        call.exc = "NoEligibleDrone"
  /\ (RatingRan /\ DronesRated /\ NoEligibleDrone(Drones)) =>
        Last.exc = "NoEligibleDrone"

\* main has an output document once compute_model has returned
HasOutput == pc \in {"rated", "drones_limited", "done"}

\* C5: the output document carries net_prem and gross_prem at its top level,
\* whatever the input document held.
C5_OutputCarriesSummaries ==
  HasOutput => {"net_prem", "gross_prem"} \subseteq DOMAIN model_data

TotalIsSumOfCategories(summary) ==
  /\ DOMAIN summary = {"drones_hull", "drones_tpl", "cameras_hull", "total"}
  /\ summary["total"].v = summary["drones_hull"].v + summary["drones_tpl"].v
                            + summary["cameras_hull"].v

\* C6: after every run of compute_model, the first and the later ones, each
\* summary the document holds has total = drones_hull + drones_tpl +
\* cameras_hull.
C6_TotalIsFreshSum ==
  HasOutput =>
    \A key \in {"net_prem", "gross_prem"} \cap DOMAIN model_data :
      TotalIsSumOfCategories(model_data[key])

\* brokerage is 1 or lies outside [0, 1)
BadBrokerage(brokerage) == ~(0 <= brokerage /\ brokerage < Scale)

\* C8: with a brokerage of 1 or outside [0, 1) the gross computation is never
\* attempted: calculate_total_gross and compute_model end in an error that
\* is not the division's own, and the document's gross_prem gains no entry.
C8_BadBrokerageRejectedFirst ==
  /\ (call.op = "calculate_total_gross" /\ BadBrokerage(call.args[2])) =>
        call.exc \notin {"none", "ZeroDivisionError"}
  /\ (RatingRan /\ BadBrokerage(model_data.brokerage)) =>
        /\ Last.exc \notin {"none", "ZeroDivisionError"}
        /\ "gross_prem" \in DOMAIN model_data => DOMAIN model_data.gross_prem = {}

UnknownBand(weight) == weight \notin DOMAIN max_takeoff_weight_adj

\* C9: a drone of an unknown weight band always ends in an error, whatever
\* its value: hull_weight_adj and hull_final_rate raise, and compute_model
\* raises without having added a computed field to any drone of the fleet.
C9_UnknownBandNeverRated ==
  /\ (call.op \in {"hull_weight_adj", "hull_final_rate"}
        /\ UnknownBand(call.args[2])) => call.exc # "none"
  /\ (RatingRan /\ \E i \in 1..Len(Drones) : UnknownBand(Drones[i].weight)) =>
        /\ Last.exc # "none"
        /\ \A i \in 1..Len(Drones) : DOMAIN Drones[i] \cap ComputedFields = {}

(***************************************************************************)
(* Properties of the operations on priced fixtures (checked under SpecOps) *)
(***************************************************************************)
Applied(i, op) == i \in 1..Len(trace) /\ trace[i].op = op

\* the list application i was given, and the list it left
Before(i) == trace[i].args[1]

After(i) ==
  IF i < Len(trace) THEN trace[i + 1].args[1]
  ELSE IF trace[i].op = "limited_drones_in_use" THEN model_data.drones
  ELSE model_data.detachable_cameras

Capacity(i) == trace[i].args[2]

HullPremium(items) == [j \in 1..Len(items) |-> items[j].hull_premium.v]

Value(items) == [j \in 1..Len(items) |-> items[j].value]

\* rank 1 is the largest key; of two equal keys the earlier item ranks first
Rank(keys, j) ==
  1 + Cardinality({i \in 1..Len(keys) :
                     keys[i] > keys[j] \/ (keys[i] = keys[j] /\ i < j)})

\* the items ranked beyond the capacity hold the flat rate, the others
\* hold what they held before
FlatBeyondRank(i, keys, flat) ==
  \A j \in 1..Len(Before(i)) :
    HullPremium(After(i))[j] =
      IF Rank(keys, j) > Capacity(i) THEN Money(flat) ELSE HullPremium(Before(i))[j]

AtFlat(items, flat) ==
  {j \in 1..Len(items) : HullPremium(items)[j] = Money(flat)}

DronesCase(i) ==
  /\ Applied(i, "limited_drones_in_use")
  /\ 0 < Capacity(i) /\ Capacity(i) < Len(Before(i))

\* C2, as stated: after limited_drones_in_use on N drones with 0 < k < N,
\* exactly N - k drones hold 150, they are the drones ranked k+1..N by
\* original hull_premium (descending, stable), and the others keep theirs.
C2_ExactlyNMinusKAtFlatRate ==
  \A i \in 1..Len(trace) : DronesCase(i) =>
    /\ Cardinality(AtFlat(After(i), FlatDroneRate)) = Len(Before(i)) - Capacity(i)
    /\ FlatBeyondRank(i, HullPremium(Before(i)), FlatDroneRate)

\* C2, amended: the drones ranked k+1..N hold 150 and the drones ranked 1..k
\* keep their hull_premium, so the drones at 150 are those N - k together
\* with the drones ranked 1..k whose hull_premium already was 150.
C2_RankedBeyondCapacityAtFlatRate ==
  \A i \in 1..Len(trace) : DronesCase(i) =>
    /\ FlatBeyondRank(i, HullPremium(Before(i)), FlatDroneRate)
    /\ Cardinality(AtFlat(After(i), FlatDroneRate)) =
         Len(Before(i)) - Capacity(i)
         + Cardinality({j \in AtFlat(Before(i), FlatDroneRate) :
                          Rank(HullPremium(Before(i)), j) <= Capacity(i)})

\* limited_drones_in_use has kept a drone above 150 and a drone at 150, and
\* has overwritten a drone that held another premium
C2_Witness ==
  /\ DronesCase(1)
  /\ \E a, b, c \in 1..Len(Before(1)) :
       /\ HullPremium(Before(1))[a] > Money(FlatDroneRate)
       /\ HullPremium(After(1))[a] = HullPremium(Before(1))[a]
       /\ HullPremium(Before(1))[b] # Money(FlatDroneRate)
       /\ HullPremium(After(1))[b] = Money(FlatDroneRate)
       /\ HullPremium(Before(1))[c] = Money(FlatDroneRate)
       /\ Rank(HullPremium(Before(1)), c) <= Capacity(1)

\* application i repeats application i - 1 on what that one left
Reapplied(i, op) == i > 1 /\ Applied(i, op) /\ Applied(i - 1, op)

Unchanged(i) == HullPremium(After(i)) = HullPremium(Before(i))

\* C3, as stated: a second application of either adjustment with the same
\* capacity leaves every hull_premium as the first left it.
C3_AdjustmentIdempotent ==
  \A i \in 1..Len(trace) :
    (Reapplied(i, "limited_drones_in_use")
      \/ Reapplied(i, "limited_cameras_in_use")) => Unchanged(i)

\* C3, amended: limited_cameras_in_use is idempotent; a second
\* limited_drones_in_use leaves every hull_premium as the first left it
\* exactly when the fleet is within the capacity or no drone holds a
\* hull_premium below 150 after the first; otherwise it overwrites a drone
\* the first one kept.
C3_IdempotentUnlessPremiumBelowFlat ==
  \A i \in 1..Len(trace) :
    /\ Reapplied(i, "limited_cameras_in_use") => Unchanged(i)
    /\ Reapplied(i, "limited_drones_in_use") =>
         (Unchanged(i) <=>
            \/ Len(Before(i)) <= Capacity(i)
            \/ \A j \in 1..Len(Before(i)) :
                 HullPremium(Before(i))[j] >= Money(FlatDroneRate))

\* limited_drones_in_use was applied twice to a fleet over the capacity: the
\* first application overwrote a drone and kept one above 150, the second
\* changed nothing
C3_Witness ==
  /\ Reapplied(2, "limited_drones_in_use")
  /\ 0 < Capacity(2) /\ Capacity(2) < Len(Before(2))
  /\ HullPremium(Before(1)) # HullPremium(After(1))
  /\ \E j \in 1..Len(Before(2)) : HullPremium(Before(2))[j] > Money(FlatDroneRate)
  /\ Unchanged(2)

\* the premium an insurance type names
PremiumField(insurance_type) ==
  CASE insurance_type = "hull" -> "hull_premium"
    [] insurance_type = "tpl" -> "tpl_layer_premium"
    [] OTHER -> insurance_type

\* the sum of the items' premiums of one field, rounded half-even to units
RECURSIVE SumOfField(_, _)
SumOfField(items, field) ==
  IF items = <<>> THEN 0
  ELSE SumOfField(Tail(items), field)
       + (IF field \in DOMAIN items[1] THEN items[1][field].v ELSE 0)

\* C7: calculate_total_net(items, insurance_type) returns the rounded sum of
\* the items' premiums of that type, an item without it counting 0: with
\* 'hull' the sum of hull_premium and with 'tpl' the sum of tpl_layer_premium
\* (2832 and 418 on the fixture's drones).
C7_TotalNetSumsThePremiumOfTheType ==
  call.op = "calculate_total_net" =>
    /\ call.exc = "none"
    /\ call.ret.v = RoundRatio(SumOfField(call.args[1],
                                          PremiumField(call.args[2])), Scale) * Scale
    /\ (call.args[1] = example_data.drones /\ call.args[2] = "hull") =>
          call.ret.v = Money(2832)
    /\ (call.args[1] = example_data.drones /\ call.args[2] = "tpl") =>
          call.ret.v = Money(418)

CamerasCase(i) ==
  /\ Applied(i, "limited_cameras_in_use")
  /\ Len(Before(i)) > Capacity(i)

\* C10: after limited_cameras_in_use on more cameras than max_in_air, the
\* cameras ranked beyond max_in_air by value (descending, ties in original
\* order) hold 50 and the cameras ranked 1..max_in_air keep their
\* hull_premium.
C10_CamerasBeyondCapacityAtFlatRate ==
  \A i \in 1..Len(trace) : CamerasCase(i) =>
    FlatBeyondRank(i, Value(Before(i)), FlatCameraRate)

\* the fixture's cameras of values 5000, 2500, 1500, 2000 at capacity 2:
\* the third and the fourth end at 50, the first two keep 360 and 180
C10_Witness ==
  /\ CamerasCase(1)
  /\ Before(1) = example_data.detachable_cameras
  /\ Capacity(1) = 2
  /\ HullPremium(After(1)) = <<Money(360), Money(180), Money(50), Money(50)>>

\* the drone list application i of limited_cameras_in_use was given
DronesPassed(i) == trace[i].args[3]

WithinCapacity(i) ==
  /\ Applied(i, "limited_cameras_in_use")
  /\ Len(Before(i)) <= Capacity(i)

\* C11: limited_cameras_in_use on no more cameras than max_in_air leaves the
\* hull_premium of every camera as it was, whatever cameras and whatever
\* drones it is given.
C11_CamerasWithinCapacityUnchanged ==
  \A i \in 1..Len(trace) : WithinCapacity(i) =>
    /\ Len(After(i)) = Len(Before(i))
    /\ Unchanged(i)

\* limited_cameras_in_use was given as many cameras as the capacity, none of
\* them at the flat rate, and fewer drones than cameras
C11_Witness ==
  /\ WithinCapacity(1)
  /\ Len(Before(1)) = Capacity(1)
  /\ Len(Before(1)) >= 2
  /\ Len(DronesPassed(1)) < Len(Before(1))
  /\ \A j \in 1..Len(Before(1)) :
       HullPremium(Before(1))[j] # Money(FlatCameraRate)
  /\ HullPremium(model_data.detachable_cameras) = HullPremium(Before(1))

(***************************************************************************)
(* Properties of the adjustment pass of main (checked under Spec)          *)
(***************************************************************************)
\* this step is a call of op made by main
Step(op) ==
  /\ Len(trace') = Len(trace) + 1
  /\ trace'[Len(trace')].op = op

\* same length, same records in the same places, but for hull_premium
OnlyHullPremiumWritten(before, after) ==
  /\ Len(after) = Len(before)
  /\ \A j \in 1..Len(before) :
       /\ DOMAIN after[j] = DOMAIN before[j]
       /\ \A f \in DOMAIN before[j] \ {"hull_premium"} : after[j][f] = before[j][f]

\* the document but for its drones and cameras, the summaries included
RestOfDocumentKept ==
  /\ DOMAIN model_data' = DOMAIN model_data
  /\ \A key \in DOMAIN model_data \ {"drones", "detachable_cameras"} :
       model_data'[key] = model_data[key]

\* C12: a step of the adjustment pass of main writes nothing but
\* hull_premium: drones and cameras keep their order and length and every
\* other field, limited_cameras_in_use leaves the drone records as they are,
\* and net_prem and gross_prem stay as the rating pass computed them.
C12_AdjustmentWritesOnlyHullPremium ==
  [][ (Step("limited_drones_in_use") \/ Step("limited_cameras_in_use")) =>
        /\ OnlyHullPremiumWritten(model_data.drones, model_data'.drones)
        /\ OnlyHullPremiumWritten(model_data.detachable_cameras,
                                  model_data'.detachable_cameras)
        /\ Step("limited_cameras_in_use") => model_data'.drones = model_data.drones
        /\ RestOfDocumentKept ]_vars

\* main has run both adjustments after a rating pass that wrote the
\* summaries: the drones came in ascending order of hull_premium, and a
\* drone and a camera were overwritten
C12_Witness ==
  /\ pc = "done"
  /\ Len(trace) = 3
  /\ {"net_prem", "gross_prem"} \subseteq DOMAIN model_data
  /\ model_data.net_prem["total"].v > 0
  /\ Len(Before(2)) = 2
  /\ HullPremium(Before(2))[1] < HullPremium(Before(2))[2]
  /\ HullPremium(model_data.drones) # HullPremium(Before(2))
  /\ HullPremium(model_data.detachable_cameras) # HullPremium(Before(3))

====
